---- MODULE Spec2Model ----
(***************************************************************************)
(* Model of src/rich_presence_config.rs: the reload orchestrator           *)
(* RichPresenceConfig::run, the process reader RichPresenceConfig::read,   *)
(* the static loader load_config and the Drop of the owning handle,        *)
(* together with their environment: the watched file, the notify watcher's *)
(* std::sync::mpsc channel, the subprocess and the downstream receiver of  *)
(* the tokio mpsc output channel.                                          *)
(***************************************************************************)
EXTENDS Naturals, Sequences, FiniteSets, TLC

\* ---------------------------------------------------------------- bounds
\* Number of times the environment rewrites the watched file.
MaxChanges == 1
\* Number of lines the subprocesses emit, all together, before they stay
\* silent, exit or fail.
MaxLines == 3
\* Capacity of the bounded tokio mpsc output channel.
ChanCap == 1

\* Events the watcher reports in all: one rewrite can be reported twice.
MaxEvents == MaxChanges + 1
\* One generation at startup and one per consumed wakeup.
MaxGen == MaxEvents + 1
Gens == 1..MaxGen

VARIABLES
    file,          \* the watched path on disk: [exec, readable, text]
    changes,       \* how many times the file has been rewritten
    watcher_rx,    \* events pending in the watcher's std mpsc channel
    watcher_tx,    \* "none" (not installed) | "alive" | "dropped" | "dead"
    reported,      \* events the watcher has put into its channel so far
    handle,        \* the RichPresenceConfig value: "held" | "dropped"
    task,          \* position of the task running RichPresenceConfig::run
    watcher_task,  \* the spawn_blocking wait: "none" | "waiting" | "returned"
    gen,           \* generations created so far (expansions of reload_config!)
    mode,          \* mode selected for each generation
    reader_task,   \* the _reader_task variable: 0 is None, g is Some(reader g)
    message,       \* the Option<UpdateMessage> held by run between load and send
    loaded,        \* per generation, load_config's calls and what it read
    reader,        \* per generation, the task running RichPresenceConfig::read
    updates,       \* the output channel's queue, each entry [gen, msg]
    rx_open,       \* the downstream still holds the receiving half
    sent,          \* per generation, the messages it enqueued, in order
    late,          \* per generation, messages enqueued after it was superseded
    errors,        \* per generation, load_config's error! lines
    wakeups        \* watcher wakeups the run loop has consumed

vars == <<file, changes, watcher_rx, watcher_tx, reported, handle, task, watcher_task,
          gen, mode, reader_task, message, loaded, reader, updates, rx_open,
          sent, late, errors, wakeups>>

\* ------------------------------------------------------------ texts, parse
\* A text is <<kind, n>>: a JSON document carrying activity n, or junk.
NoMsg == [activity |-> 0]
Json(n) == <<"json", n>>
Junk(n) == <<"junk", n>>
NoText == <<"none", 0>>

\* serde_json::from_str::<UpdateMessage>
from_str(text) ==
    IF text[1] = "json"
    THEN [ok |-> TRUE, msg |-> [activity |-> text[2]]]
    ELSE [ok |-> FALSE, msg |-> NoMsg]

\* The files the path can hold after its v-th rewrite.
FilesAt(v) ==
    { [exec |-> TRUE, readable |-> TRUE, text |-> Junk(v)],
      [exec |-> FALSE, readable |-> TRUE, text |-> Json(v + 1)],
      [exec |-> FALSE, readable |-> TRUE, text |-> Junk(v)],
      [exec |-> FALSE, readable |-> FALSE, text |-> NoText] }

\* is_executable::is_executable(&path)
is_executable(f) == f.exec

\* tokio::fs::read_to_string(path).await
read_to_string(f) ==
    IF f.readable THEN [ok |-> TRUE, text |-> f.text]
    ELSE [ok |-> FALSE, text |-> NoText]

\* Faulty variant of load_config: the `return Some(message)` of line 43 is
\* lost, so a parsed file falls through to None.
load_config_no_return(f) ==
    LET r == read_to_string(f) IN
    IF r.ok
    THEN LET p == from_str(r.text) IN
         IF p.ok THEN [some |-> FALSE, msg |-> NoMsg, errs |-> 0]
         ELSE [some |-> FALSE, msg |-> NoMsg, errs |-> 1]
    ELSE [some |-> FALSE, msg |-> NoMsg, errs |-> 1]

\* Faulty variant of load_config: a failed read or parse logs the error and
\* yields a default message instead of None.
load_config_default(f) ==
    LET r == read_to_string(f) IN
    IF r.ok
    THEN LET p == from_str(r.text) IN
         IF p.ok THEN [some |-> TRUE, msg |-> p.msg, errs |-> 0]
         ELSE [some |-> TRUE, msg |-> NoMsg, errs |-> 1]
    ELSE [some |-> TRUE, msg |-> NoMsg, errs |-> 1]

\* load_config(path): Some(message) or None with one error! line
load_config(f) ==
    LET r == read_to_string(f) IN
    IF r.ok
    THEN LET p == from_str(r.text) IN
         IF p.ok THEN [some |-> TRUE, msg |-> p.msg, errs |-> 0]
         ELSE [some |-> FALSE, msg |-> NoMsg, errs |-> 1]
    ELSE [some |-> FALSE, msg |-> NoMsg, errs |-> 1]

\* ------------------------------------------------------------ the subprocess
\* ProcessWrapper (crate::process_wrapper): the i-th line a subprocess can emit.
ProcLines(i) == { Json(i), Junk(i) }

RECURSIVE LinesRead(_, _)
LinesRead(rs, g) == IF g = 0 THEN 0 ELSE Len(rs[g].lines) + LinesRead(rs, g - 1)

\* ProcessWrapper::read_line().await: Ok(Some(line)), Ok(None) or Err(_).
ReadLineResults(r, more) ==
    { [kind |-> "line", text |-> l] :
        l \in IF more THEN ProcLines(Len(r.lines) + 1) ELSE {} }
    \cup { [kind |-> "eof", text |-> NoText], [kind |-> "err", text |-> NoText] }

\* ------------------------------------------------------- the output channel
\* tokio::sync::mpsc::Sender::send: the message joins the queue's tail.
send(q, m) == Append(q, m)

Room == Len(updates) < ChanCap

\* --------------------------------------------------- RichPresenceConfig::read
NoReader ==
    [pc |-> "none", starts |-> 0, lines |-> <<>>, msg |-> NoMsg,
     parse_errors |-> 0, died |-> 0, exit |-> "none"]

\* spawn(Self::read(..)): a task that has not been polled yet.
Spawned == [NoReader EXCEPT !.pc = "spawned"]

\* let mut process = ProcessWrapper::new(path).await;
read_new(r) == [r EXCEPT !.pc = "reading", !.starts = @ + 1]

\* Faulty variant of read_end: the reader starts over with a new subprocess
\* when the loop is left.
read_end_respawn(r, why) ==
    [r EXCEPT !.pc = "spawned", !.died = @ + 1, !.exit = why, !.msg = NoMsg]

\* The loop is left (stream end, stream error or failed send) and the
\* diagnostic of line 79 is logged; the task completes.
read_end(r, why) ==
    [r EXCEPT !.pc = "done", !.died = @ + 1, !.exit = why, !.msg = NoMsg]

\* Faulty variant of read_line: try_send in place of send().await, so a
\* message that finds the channel full is dropped.
read_line_try_send(r, text) ==
    LET p == from_str(text) IN
    IF p.ok /\ Room
    THEN [r EXCEPT !.lines = Append(@, text), !.pc = "sending", !.msg = p.msg]
    ELSE IF p.ok
    THEN [r EXCEPT !.lines = Append(@, text)]
    ELSE [r EXCEPT !.lines = Append(@, text), !.parse_errors = @ + 1]

\* Faulty variant of read_line: a line that does not parse leaves the loop.
read_line_break(r, text) ==
    LET p == from_str(text) IN
    IF p.ok
    THEN [r EXCEPT !.lines = Append(@, text), !.pc = "sending", !.msg = p.msg]
    ELSE [r EXCEPT !.lines = Append(@, text), !.parse_errors = @ + 1,
                   !.pc = "done", !.died = @ + 1, !.exit = "parse"]

\* One line was read: parse it; a message goes to send, a bad line is logged
\* and the loop continues.
read_line(r, text) ==
    LET p == from_str(text) IN
    IF p.ok
    THEN [r EXCEPT !.lines = Append(@, text), !.pc = "sending", !.msg = p.msg]
    ELSE [r EXCEPT !.lines = Append(@, text), !.parse_errors = @ + 1]

\* while let Ok(Some(line)) = process.read_line().await { .. }
read_step(r, res) ==
    IF res.kind = "line" THEN read_line(r, res.text) ELSE read_end(r, "stream")

\* updates_sender.send(message).await returned: Ok continues, Err breaks.
read_sent(r, ok) ==
    IF ok THEN [r EXCEPT !.pc = "reading", !.msg = NoMsg]
    ELSE read_end(r, "closed")

ReaderAlive(g) == reader[g].pc \in {"spawned", "reading", "sending"}

\* Dropping a tokio JoinHandle detaches the task: it keeps running.
DropJoinHandle(rs, h) == rs

OrchVars == <<handle, task, watcher_task, gen, mode, reader_task, message,
              loaded, errors, watcher_tx, watcher_rx, wakeups>>
EnvVars == <<file, changes, rx_open, reported>>

ReaderNew(g) ==
    /\ reader[g].pc = "spawned"
    /\ reader' = [reader EXCEPT ![g] = read_new(@)]
    /\ UNCHANGED <<OrchVars, EnvVars, updates, sent, late>>

ReaderReadLine(g) ==
    /\ reader[g].pc = "reading"
    /\ \E res \in ReadLineResults(reader[g], LinesRead(reader, MaxGen) < MaxLines) :
          reader' = [reader EXCEPT ![g] = read_step(@, res)]
    /\ UNCHANGED <<OrchVars, EnvVars, updates, sent, late>>

ReaderSend(g) ==
    /\ reader[g].pc = "sending"
    /\ \/ /\ rx_open
          /\ Room
          /\ updates' = send(updates, [gen |-> g, msg |-> reader[g].msg])
          /\ sent' = [sent EXCEPT ![g] = Append(@, reader[g].msg)]
          /\ late' = [late EXCEPT ![g] = IF gen > g THEN @ + 1 ELSE @]
          /\ reader' = [reader EXCEPT ![g] = read_sent(@, TRUE)]
       \/ /\ ~rx_open
          /\ reader' = [reader EXCEPT ![g] = read_sent(@, FALSE)]
          /\ UNCHANGED <<updates, sent, late>>
    /\ UNCHANGED <<OrchVars, EnvVars>>

\* ---------------------------------------------------- RichPresenceConfig::run
\* Positions of the run task.  It is suspended (at an .await) in "start"
\* (spawned, not polled yet), "load", "send" and "await"; "reload" is passed
\* within the poll that reached it.
Suspended == {"start", "load", "send", "await"}
Ended == {"panicked", "returned", "cancelled"}

ReaderVars == <<reader, sent, late>>
NotLoaded == [n |-> 0, ok |-> FALSE, text |-> NoText]

\* Watcher::new(tx, 1 s).unwrap(); watcher.watch(&path, ..).unwrap();
\* either call can fail, and unwrap then panics inside the spawned task.
InstallWatcher ==
    /\ task = "start"
    /\ handle = "held"
    /\ \/ /\ watcher_tx' = "alive"
          /\ task' = "reload"
       \/ /\ task' = "panicked"
          /\ UNCHANGED watcher_tx
    /\ UNCHANGED <<wakeups, handle, watcher_task, gen, mode, reader_task, message, loaded,
                   errors, watcher_rx, EnvVars, ReaderVars, updates>>

\* Faulty variant of reload_config: a wakeup that finds the mode of the
\* current generation unchanged only re-arms the wait.
reload_config_if_changed ==
    /\ task = "reload"
    /\ gen < MaxGen
    /\ watcher_task' = "waiting"
    /\ IF gen > 0 /\ mode[gen] = (IF is_executable(file) THEN "exec" ELSE "plain")
       THEN /\ task' = "await"
            /\ UNCHANGED <<gen, mode, reader, reader_task>>
       ELSE /\ gen' = gen + 1
            /\ IF is_executable(file)
               THEN /\ mode' = [mode EXCEPT ![gen'] = "exec"]
                    /\ reader' = [DropJoinHandle(reader, reader_task) EXCEPT ![gen'] = Spawned]
                    /\ reader_task' = gen'
                    /\ task' = "await"
               ELSE /\ mode' = [mode EXCEPT ![gen'] = "plain"]
                    /\ reader' = DropJoinHandle(reader, reader_task)
                    /\ reader_task' = 0
                    /\ task' = "load"
    /\ UNCHANGED <<wakeups, handle, message, loaded, errors, watcher_tx, watcher_rx,
                   EnvVars, sent, late, updates>>

\* Faulty variant of reload_config: the mode selected for the first generation
\* is kept for every later one.
reload_config_cached ==
    /\ task = "reload"
    /\ gen < MaxGen
    /\ watcher_task' = "waiting"
    /\ gen' = gen + 1
    /\ IF (IF gen > 0 THEN mode[gen] = "exec" ELSE is_executable(file))
       THEN /\ mode' = [mode EXCEPT ![gen'] = "exec"]
            /\ reader' = [DropJoinHandle(reader, reader_task) EXCEPT ![gen'] = Spawned]
            /\ reader_task' = gen'
            /\ task' = "await"
       ELSE /\ mode' = [mode EXCEPT ![gen'] = "plain"]
            /\ reader' = DropJoinHandle(reader, reader_task)
            /\ reader_task' = 0
            /\ task' = "load"
    /\ UNCHANGED <<wakeups, handle, message, loaded, errors, watcher_tx, watcher_rx,
                   EnvVars, sent, late, updates>>

\* reload_config! up to its first await: watcher_task = spawn_blocking(recv),
\* then the branch on is_executable(&path) starts a new generation.
\* Assigning _reader_task drops the JoinHandle it held.
reload_config ==
    /\ task = "reload"
    /\ gen < MaxGen
    /\ watcher_task' = "waiting"
    /\ gen' = gen + 1
    /\ IF is_executable(file)
       THEN /\ mode' = [mode EXCEPT ![gen'] = "exec"]
            /\ reader' = [DropJoinHandle(reader, reader_task) EXCEPT ![gen'] = Spawned]
            /\ reader_task' = gen'
            /\ task' = "await"
       ELSE /\ mode' = [mode EXCEPT ![gen'] = "plain"]
            /\ reader' = DropJoinHandle(reader, reader_task)
            /\ reader_task' = 0
            /\ task' = "load"
    /\ UNCHANGED <<wakeups, handle, message, loaded, errors, watcher_tx, watcher_rx,
                   EnvVars, sent, late, updates>>

\* load_config(&path).await in the PlainFile branch.
Load ==
    /\ task = "load"
    /\ handle = "held"
    /\ LET r == load_config(file) IN
       /\ loaded' = [loaded EXCEPT ![gen] =
                        [n |-> @.n + 1, ok |-> read_to_string(file).ok,
                         text |-> read_to_string(file).text]]
       /\ errors' = [errors EXCEPT ![gen] = @ + r.errs]
       /\ message' = r
       /\ task' = IF r.some THEN "send" ELSE "await"
    /\ UNCHANGED <<wakeups, handle, watcher_task, gen, mode, reader_task, watcher_tx,
                   watcher_rx, EnvVars, ReaderVars, updates>>

\* What the run future owns when it is dropped: the watcher (and with it the
\* channel's only Sender), the reader's JoinHandle, the watcher task's
\* JoinHandle (a blocking task cannot be aborted) and the loaded message.
DropRun ==
    /\ watcher_tx' = IF watcher_tx = "alive" THEN "dropped" ELSE watcher_tx
    /\ reader' = DropJoinHandle(reader, reader_task)
    /\ reader_task' = 0
    /\ message' = [some |-> FALSE, msg |-> NoMsg, errs |-> 0]

\* updates_sender.send(message).await in the PlainFile branch; Err returns
\* from run.
Send ==
    /\ task = "send"
    /\ handle = "held"
    /\ \/ /\ rx_open
          /\ Room
          /\ updates' = send(updates, [gen |-> gen, msg |-> message.msg])
          /\ sent' = [sent EXCEPT ![gen] = Append(@, message.msg)]
          /\ message' = [some |-> FALSE, msg |-> NoMsg, errs |-> 0]
          /\ task' = "await"
          /\ UNCHANGED <<watcher_tx, reader, reader_task>>
       \/ /\ ~rx_open
          /\ task' = "returned"
          /\ DropRun
          /\ UNCHANGED <<updates, sent>>
    /\ UNCHANGED <<wakeups, handle, watcher_task, gen, mode, loaded, errors, watcher_rx,
                   EnvVars, late>>

\* Faulty variant of AwaitWatcher: the loop joins the reader task of the
\* current generation before it takes the wakeup.
AwaitWatcher_joins_reader ==
    /\ task = "await"
    /\ handle = "held"
    /\ reader_task /= 0 => reader[reader_task].pc = "done"
    /\ watcher_task = "returned"
    /\ watcher_task' = "none"
    /\ wakeups' = wakeups + 1
    /\ task' = "reload"
    /\ UNCHANGED <<handle, gen, mode, reader_task, message, loaded, errors,
                   watcher_tx, watcher_rx, EnvVars, ReaderVars, updates>>

\* Faulty variant of AwaitWatcher: the loop gives up on a wait that has not
\* returned and goes on to re-arm.
AwaitWatcher_timeout ==
    /\ task = "await"
    /\ handle = "held"
    /\ watcher_task \in {"waiting", "returned"}
    /\ watcher_task' = IF watcher_task = "returned" THEN "none" ELSE watcher_task
    /\ wakeups' = wakeups + 1
    /\ task' = "reload"
    /\ UNCHANGED <<handle, gen, mode, reader_task, message, loaded, errors,
                   watcher_tx, watcher_rx, EnvVars, ReaderVars, updates>>

\* loop { let returned_rx = watcher_task.await.unwrap(); info!(..); .. }
AwaitWatcher ==
    /\ task = "await"
    /\ handle = "held"
    /\ watcher_task = "returned"
    /\ watcher_task' = "none"
    /\ wakeups' = wakeups + 1
    /\ task' = "reload"
    /\ UNCHANGED <<handle, gen, mode, reader_task, message, loaded, errors,
                   watcher_tx, watcher_rx, EnvVars, ReaderVars, updates>>

\* The blocking closure: $watcher_rx.recv() returns an event, or Err once the
\* Sender is gone; the result is discarded and the receiver handed back.
WatcherRecv ==
    /\ watcher_task = "waiting"
    /\ \/ /\ watcher_rx > 0
          /\ watcher_rx' = watcher_rx - 1
       \/ /\ watcher_rx = 0
          /\ watcher_tx \in {"dropped", "dead"}
          /\ UNCHANGED watcher_rx
    /\ watcher_task' = "returned"
    /\ UNCHANGED <<wakeups, handle, task, gen, mode, reader_task, message, loaded, errors,
                   watcher_tx, EnvVars, ReaderVars, updates>>

\* impl Drop for RichPresenceConfig: self.task.abort().
Drop ==
    /\ handle = "held"
    /\ handle' = "dropped"
    /\ UNCHANGED <<wakeups, task, watcher_task, gen, mode, reader_task, message, loaded,
                   errors, watcher_tx, watcher_rx, EnvVars, ReaderVars, updates>>

\* The runtime cancels the aborted run task at its await point and drops its
\* future.
Cancel ==
    /\ handle = "dropped"
    /\ task \in Suspended
    /\ task' = "cancelled"
    /\ DropRun
    /\ UNCHANGED <<wakeups, handle, watcher_task, gen, mode, loaded, errors, watcher_rx,
                   EnvVars, sent, late, updates>>

\* ------------------------------------------------------------ environment
\* The file is rewritten, or touched with its content unchanged, in one burst
\* of writes; a live watcher puts k events for it into its channel.
FileWritten(k) ==
    /\ changes < MaxChanges
    /\ changes' = changes + 1
    /\ \E f \in FilesAt(changes + 1) \cup {file} : file' = f
    /\ IF watcher_tx = "alive"
       THEN /\ reported + k <= MaxEvents
            /\ reported' = reported + k
            /\ watcher_rx' = watcher_rx + k
       ELSE UNCHANGED <<reported, watcher_rx>>
    /\ UNCHANGED <<wakeups, handle, task, watcher_task, gen, mode, reader_task, message,
                   loaded, errors, watcher_tx, rx_open, ReaderVars, updates>>

\* The debounced watcher (1 s delay) reports the burst with one event.
FileChange == FileWritten(1)

\* The debounced watcher reports the burst with two events: a notice at the
\* first write and the debounced event after the delay.
FileBurst == watcher_tx = "alive" /\ FileWritten(2)

\* The watch is dropped while run is alive: the watcher's thread ends and
\* its Sender goes away, so the channel disconnects.
WatcherDies ==
    /\ watcher_tx = "alive"
    /\ watcher_tx' = "dead"
    /\ UNCHANGED <<wakeups, handle, task, watcher_task, gen, mode, reader_task, message,
                   loaded, errors, watcher_rx, EnvVars, ReaderVars, updates>>

\* The downstream takes the next message.
Receive ==
    /\ rx_open
    /\ updates /= <<>>
    /\ updates' = Tail(updates)
    /\ UNCHANGED <<OrchVars, EnvVars, ReaderVars>>

\* The downstream drops the receiving half; queued messages go with it.
CloseReceiver ==
    /\ rx_open
    /\ rx_open' = FALSE
    /\ updates' = <<>>
    /\ UNCHANGED <<OrchVars, file, changes, reported, ReaderVars>>

\* RichPresenceConfig::new: the run task is spawned and the handle returned.
Init ==
    /\ \E f \in FilesAt(0) : file = f
    /\ changes = 0
    /\ watcher_rx = 0
    /\ watcher_tx = "none"
    /\ reported = 0
    /\ handle = "held"
    /\ task = "start"
    /\ watcher_task = "none"
    /\ gen = 0
    /\ mode = [g \in Gens |-> "none"]
    /\ reader_task = 0
    /\ message = [some |-> FALSE, msg |-> NoMsg, errs |-> 0]
    /\ loaded = [g \in Gens |-> NotLoaded]
    /\ reader = [g \in Gens |-> NoReader]
    /\ updates = <<>>
    /\ rx_open = TRUE
    /\ sent = [g \in Gens |-> <<>>]
    /\ late = [g \in Gens |-> 0]
    /\ errors = [g \in Gens |-> 0]
    /\ wakeups = 0

Next ==
    \/ InstallWatcher
    \/ reload_config
    \/ Load
    \/ Send
    \/ AwaitWatcher
    \/ WatcherRecv
    \/ Drop
    \/ Cancel
    \/ FileChange
    \/ Receive
    \/ CloseReceiver
    \/ \E g \in Gens : ReaderNew(g)
    \/ \E g \in Gens : ReaderReadLine(g)
    \/ \E g \in Gens : ReaderSend(g)

Spec == Init /\ [][Next]_vars

\* The same program with a watcher that may report one burst twice and may
\* die while run is alive.
NextWatcher ==
    \/ Next
    \/ FileBurst
    \/ WatcherDies

SpecWatcher == Init /\ [][NextWatcher]_vars

\* ================================================================ claims
\* What the claims mean by a well-formed text and by its parse.
WellFormed(text) == text[1] = "json"
Doc(text) == [activity |-> text[2]]
GoodLines(lines) == SelectSeq(lines, WellFormed)
Docs(lines) == [i \in 1..Len(lines) |-> Doc(lines[i])]

IsPrefix(a, b) == Len(a) <= Len(b) /\ a = SubSeq(b, 1, Len(a))
IsSuffix(a, b) == Len(a) <= Len(b) /\ a = SubSeq(b, Len(b) - Len(a) + 1, Len(b))

\* The messages of generation g waiting in the output channel, in queue order.
Queued(g) ==
    LET OfGen(e) == e.gen = g
        q == SelectSeq(updates, OfGen)
    IN [i \in 1..Len(q) |-> q[i].msg]

\* C1: at every instant at most one reader task spawned by run is alive.
C1_OneReaderAlive == Cardinality({g \in Gens : ReaderAlive(g)}) <= 1

\* C2: a generation superseded by a reload enqueues at most the one message
\* whose send was in flight when the new generation was created.
C2_SupersededSilent == \A g \in Gens : late[g] <= 1

\* C3: after the handle is dropped (and the abort of the run task has taken
\* effect) no task of this orchestrator enqueues a message into the output
\* channel, whatever the subprocess emits.
C3_NoSendAfterDrop ==
    [][(handle = "dropped" /\ task = "cancelled") => sent' = sent]_vars

\* Steps the program takes by itself: they need no further line or exit from
\* a subprocess, no file change and nothing from the downstream.
ProgramStep ==
    \/ InstallWatcher
    \/ reload_config
    \/ Load
    \/ Cancel
    \/ WatcherRecv
    \/ AwaitWatcher
    \/ \E g \in Gens : ReaderNew(g)

AllTerminated ==
    /\ task \in Ended
    /\ watcher_task /= "waiting"
    /\ \A g \in Gens : ~ReaderAlive(g)

\* C4: after the handle is dropped every task it started terminates: once the
\* program has nothing left to do by itself, the loop task, the watcher wait
\* and every reader task have ended.
C4_NoTaskOutlivesHandle ==
    (handle = "dropped" /\ ~ENABLED ProgramStep) => AllTerminated

\* C10: a failed send ends only the generation's delivery: the run loop ends
\* only when the handle is dropped.
C10_LoopEndsOnlyOnDrop == task \in {"returned", "cancelled"} => handle = "dropped"

\* The PlainFile generation g has loaded a readable, well-formed file.
PlainGood(g) ==
    mode[g] = "plain" /\ loaded[g].n > 0 /\ loaded[g].ok /\ WellFormed(loaded[g].text)

\* The PlainFile generation g has loaded a file it could not read or parse.
PlainBad(g) ==
    mode[g] = "plain" /\ loaded[g].n > 0 /\ ~(loaded[g].ok /\ WellFormed(loaded[g].text))

\* The run task has gone past the inline load and send of generation g.
StaticPassed(g) == g < gen \/ (g = gen /\ task \in {"await", "reload"})

\* C5: in PlainFile mode each load of a well-formed file (one per
\* generation) delivers exactly one message, the parse of the content read
\* by that load; none is delivered before the send and never a second one.
C5_StaticLoadDeliversOnce ==
    \A g \in Gens : PlainGood(g) =>
        /\ loaded[g].n = 1
        /\ IsPrefix(sent[g], <<Doc(loaded[g].text)>>)
        /\ IsSuffix(Queued(g), sent[g])
        /\ StaticPassed(g) => sent[g] = <<Doc(loaded[g].text)>>

C5_Witness ==
    /\ gen = 2
    /\ task = "await"
    /\ PlainGood(1) /\ loaded[1].text = Json(1) /\ sent[1] = <<Doc(Json(1))>>
    /\ PlainGood(2) /\ loaded[2].text = Json(2) /\ sent[2] = <<Doc(Json(2))>>

C6_Inv ==
    /\ gen <= wakeups + 1
    /\ \A g \in Gens : PlainBad(g) =>
        /\ sent[g] = <<>>
        /\ Queued(g) = <<>>
        /\ errors[g] = 1
        /\ loaded[g].n = 1
        /\ g = gen => task \in {"await", "reload", "cancelled"}

C6_Step ==
    \A g \in Gens :
        (loaded'[g].n > loaded[g].n /\ ~(loaded'[g].ok /\ WellFormed(loaded'[g].text)))
        => /\ updates' = updates
           /\ sent' = sent
           /\ task' = "await"
           /\ loaded'[g].n = 1

\* C6: in PlainFile mode a file that cannot be read or parsed delivers no
\* message, the load leaves the output channel as it was and logs one error,
\* and the run task goes on to wait for the watcher: the file is loaded once
\* per generation and a generation is created only by a consumed wakeup.
C6_FailedLoadDeliversNothing == []C6_Inv /\ [][C6_Step]_vars

C6_Witness ==
    /\ gen = 2
    /\ wakeups = 1
    /\ task = "await"
    /\ PlainBad(1) /\ loaded[1].ok /\ sent[1] = <<>>
    /\ PlainBad(2) /\ ~loaded[2].ok /\ sent[2] = <<>>
    /\ rx_open /\ updates = <<>>

AllWellFormed(lines) == \A i \in 1..Len(lines) : WellFormed(lines[i])

\* The reader of generation g has left its loop because the stream ended.
StreamEnded(g) == reader[g].pc = "done" /\ reader[g].exit = "stream"

C7_Inv ==
    \A g \in Gens :
        /\ IsSuffix(Queued(g), sent[g])
        /\ reader[g].pc /= "done" => reader[g].died = 0
        /\ (StreamEnded(g) /\ AllWellFormed(reader[g].lines)) =>
              /\ sent[g] = Docs(reader[g].lines)
              /\ reader[g].died = 1

C7_Step ==
    \A g \in Gens :
        /\ sent'[g] /= sent[g] =>
              /\ sent'[g] = Append(sent[g], updates'[Len(updates')].msg)
              /\ updates' = Append(updates, [gen |-> g, msg |-> sent'[g][Len(sent'[g])]])
        /\ reader[g].pc = "done" => (sent'[g] = sent[g] /\ reader'[g].pc = "done")

\* C7: a subprocess that emits N well-formed lines and then exits has, when
\* its reader ends, exactly the N parsed messages enqueued by that reader, in
\* emission order (each joins the tail of the output channel), then the
\* termination diagnostic logged once, and the ended reader enqueues nothing
\* more.
C7_ProcessDeliversInOrder == []C7_Inv /\ [][C7_Step]_vars

C7_Witness ==
    /\ gen = 1
    /\ rx_open
    /\ StreamEnded(1)
    /\ reader[1].lines = <<Json(1), Json(2), Json(3)>>
    /\ sent[1] = <<Doc(Json(1)), Doc(Json(2)), Doc(Json(3))>>
    /\ reader[1].died = 1

C8_Inv ==
    \A g \in Gens : mode[g] = "exec" =>
        LET r == reader[g] IN
        /\ IsPrefix(sent[g], Docs(GoodLines(r.lines)))
        /\ (r.pc = "reading" \/ StreamEnded(g)) => sent[g] = Docs(GoodLines(r.lines))
        /\ r.parse_errors = Len(r.lines) - Len(GoodLines(r.lines))
        /\ r.pc = "done" => r.exit \in {"stream", "closed"}

C8_Step ==
    \A g \in Gens :
        (Len(reader'[g].lines) > Len(reader[g].lines)
            /\ ~WellFormed(reader'[g].lines[Len(reader'[g].lines)]))
        => /\ reader'[g].pc = "reading"
           /\ reader'[g].starts = reader[g].starts
           /\ reader'[g].parse_errors = reader[g].parse_errors + 1
           /\ sent' = sent

\* C8: in process mode a line that fails to parse is logged and skipped: the
\* reader stays in its loop with the same subprocess, and the messages it
\* has delivered are exactly the well-formed lines read, in emission order.
C8_BadLineSkipped == []C8_Inv /\ [][C8_Step]_vars

C8_Witness ==
    /\ StreamEnded(1)
    /\ reader[1].lines = <<Json(1), Junk(2), Json(3)>>
    /\ sent[1] = <<Doc(Json(1)), Doc(Json(3))>>
    /\ reader[1].parse_errors = 1
    /\ reader[1].starts = 1

RECURSIVE Starts(_, _)
Starts(rs, g) == IF g = 0 THEN 0 ELSE rs[g].starts + Starts(rs, g - 1)

C9_Inv ==
    /\ Starts(reader, MaxGen) <= gen
    /\ gen <= wakeups + 1
    /\ \A g \in Gens :
        /\ reader[g].starts <= 1
        /\ mode[g] /= "exec" => reader[g].starts = 0

C9_Step ==
    \A g \in Gens :
        /\ reader[g].pc = "done" => reader'[g] = reader[g]
        /\ reader'[g].starts > reader[g].starts => reader[g].pc = "spawned"

\* C9: the subprocess is started at most once per generation: a reader whose
\* loop has ended stays ended, and the processes started never outnumber the
\* generations, which are one at startup plus one per consumed wakeup.
C9_ProcessStartedOnce == []C9_Inv /\ [][C9_Step]_vars

C9_Witness ==
    /\ gen = 2
    /\ wakeups = 1
    /\ reader[1].pc = "done" /\ reader[1].starts = 1
    /\ reader[2].pc = "done" /\ reader[2].starts = 1

\* Events the blocking recv() has taken out of the watcher's channel.
Received == reported - watcher_rx

C11_Inv ==
    /\ task \in {"start", "panicked"} => (gen = 0 /\ wakeups = 0)
    /\ task = "reload" => gen = wakeups
    /\ task \in {"load", "send", "await", "returned"} => gen = wakeups + 1
    /\ task = "cancelled" => (gen = wakeups + 1 \/ (gen = 0 /\ wakeups = 0))
    /\ (watcher_tx = "alive" /\ task = "await" /\ watcher_task = "waiting")
          => gen = Received + 1

C11_Step == gen' /= gen => (gen' = gen + 1 /\ wakeups = gen)

\* C11: every change notification the run loop receives creates exactly one
\* generation, whether or not the file's content changed: generations are
\* one at startup plus one per consumed wakeup, and a generation is created
\* only at startup or right after a wakeup was consumed.
C11_OneGenerationPerWakeup == []C11_Inv /\ [][C11_Step]_vars

C11_Witness ==
    /\ gen = 2
    /\ wakeups = 1
    /\ changes = 1
    /\ task = "await"
    /\ mode[1] = "plain" /\ mode[2] = "plain"
    /\ PlainGood(1) /\ PlainGood(2)
    /\ loaded[1].text = loaded[2].text
    /\ sent[2] = sent[1]

\* C12: the events of one burst of writes produce one reload cycle, not one
\* per event: while the watcher lives, the wakeups consumed never outnumber
\* the bursts.
C12_BurstOneReload == watcher_tx = "alive" => wakeups <= changes

\* C13: when the watcher cannot be installed, RichPresenceConfig::new yields
\* no handle, and no generation is started and no message delivered.
C13_InstallFailurePropagates ==
    task = "panicked" =>
        /\ handle \notin {"held", "dropped"}
        /\ gen = 0
        /\ \A g \in Gens : sent[g] = <<>>

\* Steps of the run task and of its watcher wait.
LoopStep ==
    \/ InstallWatcher
    \/ reload_config
    \/ Load
    \/ Send
    \/ AwaitWatcher
    \/ WatcherRecv
    \/ Cancel

\* C14: no change is missed: with the handle held, once the run task and its
\* watcher wait can do nothing more by themselves, every event the watcher
\* reported (also one reported during re-arming, selection or loading) has
\* woken the loop and caused a reload.
C14_NoChangeMissed ==
    (handle = "held" /\ watcher_tx /= "dead" /\ ~ENABLED LoopStep)
        => wakeups = reported

\* The reader of the current generation is blocked: on read_line, or on a
\* send into the full channel.
ReaderBlocked ==
    /\ gen > 0
    /\ mode[gen] = "exec"
    /\ reader[gen].pc = "reading" \/ (reader[gen].pc = "sending" /\ ~Room)

\* C15: in Executable mode the loop does not wait for the reader: while the
\* reader is blocked and the handle is held, the run task is at the watcher
\* await or re-arming, a queued change notification can be taken by the
\* blocking wait, a returned wait can be consumed by the loop, and the loop
\* can then start the new generation.
C15_ReloadWhileReaderBlocked ==
    (ReaderBlocked /\ handle = "held" /\ task \notin Ended) =>
        /\ task \in {"await", "reload"}
        /\ (watcher_task = "waiting" /\ watcher_rx > 0) => ENABLED WatcherRecv
        /\ (task = "await" /\ watcher_task = "returned") => ENABLED AwaitWatcher
        /\ (task = "reload" /\ gen < MaxGen) => ENABLED reload_config

C15_Witness ==
    /\ gen = 2
    /\ mode[1] = "exec"
    /\ reader[1].pc = "sending"
    /\ reader[1].lines = <<Json(1), Json(2)>>
    /\ sent[1] = <<Doc(Json(1))>>
    /\ Queued(1) = <<Doc(Json(1))>>
    /\ ~Room
    /\ handle = "held"

\* The mode the executable bit of the file selects now.
Selected == IF is_executable(file) THEN "exec" ELSE "plain"

\* C16: the step that starts a generation gives it the mode selected by the
\* file's executable bit at that moment, whatever the mode of the generation
\* before; it starts a reader for an executable and goes to the inline load
\* for a plain file, and leaves the recorded modes of earlier generations.
C16_Step ==
    gen' /= gen =>
        /\ mode'[gen'] = Selected
        /\ \A g \in Gens : g /= gen' => mode'[g] = mode[g]
        /\ Selected = "exec" => (reader'[gen'] = Spawned /\ reader_task' = gen' /\ task' = "await")
        /\ Selected = "plain" => (reader'[gen'] = NoReader /\ reader_task' = 0 /\ task' = "load")

C16_ModeFromExecutableBit == [][C16_Step]_vars

C16_Witness ==
    /\ gen = 2
    /\ mode[1] = "exec"
    /\ reader[1].pc /= "new"
    /\ mode[2] = "plain"
    /\ ~is_executable(file)
    /\ PlainGood(2)
    /\ sent[2] = <<Doc(loaded[2].text)>>

\* C17: a wait that fails because the watch was dropped starts no generation:
\* the generations started never outnumber the events received plus the
\* initial one.
C17_FailedWaitNoGeneration == gen <= Received + 1

\* C18: the wait is reused without leak: a wait is outstanding or returned
\* and not yet consumed exactly when one more wait was armed than consumed;
\* while the loop re-arms, the previous wait has returned and been consumed;
\* a wait is armed only then, on the channel as the previous wait left it.
C18_Inv ==
    /\ watcher_task = "none" <=> gen = wakeups
    /\ watcher_task \in {"waiting", "returned"} <=> gen = wakeups + 1
    /\ task = "reload" => watcher_task = "none"
    /\ task \in {"load", "send", "await"} => watcher_task \in {"waiting", "returned"}

C18_Step ==
    /\ gen' /= gen =>
          (watcher_task = "none" /\ watcher_task' = "waiting" /\ watcher_rx' = watcher_rx)
    /\ (watcher_task' = "waiting" /\ watcher_task /= "waiting") => gen' = gen + 1
    /\ (watcher_task' = "none" /\ watcher_task /= "none") =>
          (watcher_task = "returned" /\ wakeups' = wakeups + 1 /\ watcher_rx' = watcher_rx)

C18_OneWaitReused == []C18_Inv /\ [][C18_Step]_vars

C18_Witness ==
    /\ gen = 2
    /\ wakeups = 1
    /\ watcher_task = "waiting"
    /\ task = "await"
    /\ handle = "held"
    /\ watcher_tx = "alive"

\* C19: the inline send of a PlainFile cycle completes whether or not the
\* downstream takes messages: with the handle held, the run task at its send
\* can always take its step.
C19_InlineSendCompletes == (task = "send" /\ handle = "held") => ENABLED Send

====
